---- MODULE Spec2Model ----
(***************************************************************************)
(* Model of github.com/aofei/backoff: the Full-Jitter delay computation    *)
(* Duration and the cancellable attempt iterator Attempts (both revisions  *)
(* of the iterator: the one that resets a single timer, src/backoff.go,    *)
(* and the one that allocates a time.After channel per gap,                *)
(* src/unnamed/part_000).                                                  *)
(*                                                                         *)
(* time.Duration is a 64-bit signed integer.  A value is modelled as its   *)
(* two's-complement bit pattern: the set of the positions of its 1 bits,   *)
(* a subset of 0..63 with bit 63 the sign.  Shifts and comparisons are     *)
(* the machine's, so wrap-around of base << attempt is what the hardware   *)
(* does.                                                                   *)
(***************************************************************************)
EXTENDS Integers, Sequences, FiniteSets, TLC

VARIABLES
    base,       \* argument base of Duration / Attempts (a 64-bit word)
    cap,        \* argument cap of Duration / Attempts (a 64-bit word)
    dAttempt,   \* argument attempt of a direct call of Duration
    dpc,        \* position of the direct call of Duration: "idle", "returned"
    dOut,       \* outcome of the direct call of Duration
    afterTimer, \* the timer of a direct call of After: "none", "armed",
                \* "fired"
    afterChan,  \* notifications waiting in the channel After returned
    afterSent,  \* notifications delivered on that channel so far
    afterRecv,  \* notifications the caller has received from it
    rev,        \* revision of Attempts: "reset" (src/backoff.go) or
                \* "after" (src/unnamed/part_000)
    maxAttempts,    \* argument maxAttempts of Attempts
    ctxDone,    \* the context ctx is cancelled
    pc,         \* position of the iterator: "start" (returned by Attempts,
                \* not iterated yet), "check", "call", "body" (inside the
                \* consumer's yield), "select", "done", "panic"
    attempt,    \* the loop variable
    timer,      \* the timer of the current iteration: "nil", "armed",
                \* "fired" (tick in the channel), "drained", "stopped"
    delay,      \* the delay the timer was last armed with
    pass,       \* how many times the returned sequence has been iterated
    yielded,    \* the indices passed to yield in this iteration, in order
    stopped,    \* yield has returned false in this iteration
    cancelAt,   \* where the iterator was when ctx was cancelled
    durationCalls,  \* calls of Duration in this iteration
    timerArms,  \* timers armed (NewTimer, Reset, After) in this iteration
    ctxChecks   \* checks of ctx made before a yield in this iteration

----------------------------------------------------------------------------
(* 64-bit words *)

\* Bit width of time.Duration (int64).
Width == 64

Bits == 0 .. (Width - 1)

SignBit == Width - 1

MaxOf(S) == CHOOSE x \in S : \A y \in S : y <= x

MinOf(S) == CHOOSE x \in S : \A y \in S : x <= y

\* The word of a small natural number (n < 2^31).
ToWord(n) == {i \in 0 .. 30 : (n \div (2 ^ i)) % 2 = 1}

Zero == {}

One == {0}

\* time.Second, in nanoseconds.
Second == ToWord(1000000000)

MaxInt64 == 0 .. (Width - 2)

MinusOne == Bits

IsNeg(w) == SignBit \in w

\* w <= 0 in signed arithmetic.
LeqZero(w) == w = Zero \/ IsNeg(w)

\* a < b, both read as natural numbers (any finite set of bit positions).
ULess(a, b) == a # b /\ MaxOf((a \ b) \cup (b \ a)) \in b

\* a < b in 64-bit signed arithmetic.
SLess(a, b) ==
    IF IsNeg(a) # IsNeg(b) THEN IsNeg(a) ELSE ULess(a, b)

SLeq(a, b) == a = b \/ SLess(a, b)

\* w >> k for a signed word: arithmetic shift; a count >= Width gives 0 or -1.
Shr(w, k) ==
    {i - k : i \in {j \in w : j >= k}}
        \cup (IF IsNeg(w) THEN {i \in Bits : i >= Width - k} ELSE {})

\* w << k: the bits shifted out of the word are lost.
Shl(w, k) == {i + k : i \in w} \cap Bits

\* w - 1 for w > 0.
Dec(w) == (w \ {MinOf(w)}) \cup (0 .. (MinOf(w) - 1))

----------------------------------------------------------------------------
(* Duration *)

Return(w) == [panic |-> FALSE, value |-> w]

Panic == [panic |-> TRUE, value |-> Zero]

\* The values of rand.N the model draws: the two ends of the interval, its
\* middle and 1.
Draws(n) == {Zero, One, Shr(n, 1), Dec(n)}

\* rand.N(n): any value of [0, n); it panics if n <= 0.
RandN(n) ==
    IF LeqZero(n) THEN {Panic}
    ELSE {Return(r) : r \in {d \in Draws(n) : ~IsNeg(d) /\ SLess(d, n)}}

\* The guard constant of "attempt >= 63".
ShiftGuard == 63

\* Faulty variant of Limit: the product is never compared with cap.
LimitUncapped(b, c, a) ==
    IF a >= ShiftGuard THEN c ELSE Shl(b, a)

\* Faulty variant of Limit: the overflow branch saturates to the largest
\* Duration instead of cap.
LimitSaturated(b, c, a) ==
    IF a >= ShiftGuard \/ SLess(Shr(c, a), b)
    THEN MaxInt64
    ELSE Shl(b, a)

\* Faulty variant of Limit: the test is base >= cap>>attempt.
LimitOffByOne(b, c, a) ==
    IF a >= ShiftGuard \/ SLeq(Shr(c, a), b)
    THEN c
    ELSE Shl(b, a)

\* limit = base * 2^attempt, but never above cap and never overflow.
Limit(b, c, a) ==
    IF a >= ShiftGuard \/ SLess(Shr(c, a), b)
    THEN c
    ELSE Shl(b, a)

\* cap >> attempt with a negative count is a run-time panic in Go.
ShiftPanics(a) == a < 0

\* Faulty variant of Duration: the guard on the arguments is missing.
DurationUnguarded(b, c, a) ==
    IF a < ShiftGuard /\ ShiftPanics(a)
    THEN {Panic}
    ELSE IF SLeq(Limit(b, c, a), One)
    THEN {Return(Zero)}
    ELSE RandN(Limit(b, c, a))

\* The set of outcomes of Duration(base, cap, attempt).  The shift of line 22
\* is evaluated only when attempt >= 63 is false; a is the argument attempt.
Duration(b, c, a) ==
    IF LeqZero(b) \/ LeqZero(c) \/ a < 0
    THEN {Return(Zero)}
    ELSE IF a < ShiftGuard /\ ShiftPanics(a)
    THEN {Panic}
    ELSE IF SLeq(Limit(b, c, a), One)
    THEN {Return(Zero)}
    ELSE RandN(Limit(b, c, a))

----------------------------------------------------------------------------
(* Inputs *)

\* Largest attempt number given to a direct call of Duration.
MaxShift == 65

DurationValues ==
    {Zero, One, ToWord(3), Second, {40}, {Width - 2}, MaxInt64,
     MinusOne, {0, SignBit}}

AttemptValues == -1 .. MaxShift

\* Largest maxAttempts given to Attempts.
MaxAttempts == 3

\* How many times one returned sequence is iterated.
MaxPasses == 2

MaxAttemptsValues == -1 .. MaxAttempts

\* The (base, cap) pairs given to Attempts: delays that are always 0
\* (<<1, 1>>, as in the tests, and base 0), and delays that may be positive.
AttemptsDurations ==
    {<<One, One>>, <<Zero, Second>>, <<One, Second>>, <<Second, Second>>}

NotCancelled == [pc |-> "none", attempt |-> 0, pass |-> 0]

----------------------------------------------------------------------------
(* State *)

avars == <<afterTimer, afterChan, afterSent, afterRecv>>

dvars == <<dAttempt, dpc, dOut, avars>>

inputs == <<base, cap, rev, maxAttempts>>

locals == <<pc, attempt, timer, delay, pass>>

observed == <<yielded, stopped, durationCalls, timerArms, ctxChecks>>

ctxvars == <<ctxDone, cancelAt>>

vars == <<inputs, dvars, ctxvars, locals, observed>>

\* The state of an iterator that Attempts has returned and nobody has
\* iterated yet.
FreshSequence ==
    /\ pc = "start"
    /\ attempt = 0
    /\ timer = "nil"
    /\ delay = Zero
    /\ pass = 0
    /\ yielded = <<>>
    /\ stopped = FALSE
    /\ durationCalls = 0
    /\ timerArms = 0
    /\ ctxChecks = 0

\* No channel has been asked of After.
NoChannel ==
    /\ afterTimer = "none"
    /\ afterChan = 0
    /\ afterSent = 0
    /\ afterRecv = 0

NoDirectCall ==
    /\ dAttempt = 0
    /\ dpc = "idle"
    /\ dOut = Return(Zero)
    /\ NoChannel

----------------------------------------------------------------------------
(* A direct call of Duration *)

InitDuration ==
    /\ base \in DurationValues
    /\ cap \in DurationValues
    /\ dAttempt \in AttemptValues
    /\ dpc = "idle"
    /\ dOut = Return(Zero)
    /\ NoChannel
    /\ rev = "reset"
    /\ maxAttempts = 0
    /\ ctxDone = FALSE
    /\ cancelAt = NotCancelled
    /\ FreshSequence

DurationCall ==
    /\ dpc = "idle"
    /\ dOut' \in Duration(base, cap, dAttempt)
    /\ dpc' = "returned"
    /\ UNCHANGED <<dAttempt, avars, inputs, ctxvars, locals, observed>>

NextDuration == DurationCall

SpecDuration == InitDuration /\ [][NextDuration]_vars

----------------------------------------------------------------------------
(* A direct call of After *)

\* Faulty variant of AfterCall: a delay of 0 is delivered by the call
\* itself, before it returns.
AfterCallInline ==
    /\ dpc = "idle"
    /\ \E out \in Duration(base, cap, dAttempt) :
           /\ dOut' = out
           /\ IF out.panic
              THEN dpc' = "panic" /\ UNCHANGED avars
              ELSE /\ dpc' = "returned"
                   /\ IF LeqZero(out.value)
                      THEN /\ afterTimer' = "fired"
                           /\ afterChan' = afterChan + 1
                           /\ afterSent' = afterSent + 1
                           /\ afterRecv' = afterRecv
                      ELSE /\ afterTimer' = "armed"
                           /\ UNCHANGED <<afterChan, afterSent, afterRecv>>
    /\ UNCHANGED <<dAttempt, inputs, ctxvars, locals, observed>>

\* After(base, cap, attempt): time.After(Duration(base, cap, attempt)) arms
\* a one-shot timer with the delay, whatever it is, and returns its channel
\* at once.
AfterCall ==
    /\ dpc = "idle"
    /\ \E out \in Duration(base, cap, dAttempt) :
           /\ dOut' = out
           /\ IF out.panic
              THEN dpc' = "panic" /\ UNCHANGED avars
              ELSE /\ dpc' = "returned"
                   /\ afterTimer' = "armed"
                   /\ UNCHANGED <<afterChan, afterSent, afterRecv>>
    /\ UNCHANGED <<dAttempt, inputs, ctxvars, locals, observed>>

\* The runtime sends the time on the channel once the delay has elapsed; the
\* timer of time.After is one-shot.
AfterFire ==
    /\ afterTimer = "armed"
    /\ afterTimer' = "fired"
    /\ afterChan' = afterChan + 1
    /\ afterSent' = afterSent + 1
    /\ UNCHANGED <<dAttempt, dpc, dOut, afterRecv, inputs, ctxvars, locals,
                   observed>>

\* The caller receives from the channel.
AfterReceive ==
    /\ afterChan > 0
    /\ afterChan' = afterChan - 1
    /\ afterRecv' = afterRecv + 1
    /\ UNCHANGED <<dAttempt, dpc, dOut, afterTimer, afterSent, inputs,
                   ctxvars, locals, observed>>

NextAfter ==
    \/ AfterCall
    \/ AfterFire
    \/ AfterReceive

\* The runtime fires every timer whose delay has elapsed.
SpecAfter == InitDuration /\ [][NextAfter]_vars /\ WF_vars(AfterFire)

----------------------------------------------------------------------------
(* The context and the timer: the iterator's environment *)

\* The owner of ctx cancels it, at any moment; the iterator never does.
Cancel ==
    /\ ~ctxDone
    /\ ctxDone' = TRUE
    /\ cancelAt' = [pc |-> pc, attempt |-> attempt, pass |-> pass]
    /\ UNCHANGED <<inputs, dvars, locals, observed>>

\* The runtime delivers the tick of an armed timer on its channel.
TimerFire ==
    /\ timer = "armed"
    /\ timer' = "fired"
    /\ UNCHANGED <<inputs, dvars, ctxvars, pc, attempt, delay, pass, observed>>

----------------------------------------------------------------------------
(* Attempts, src/backoff.go: one resettable timer *)

\* Faulty variant of Iterate: the loop variable outlives the call, so a
\* second iteration resumes where the first one ended.
IterateResumed ==
    /\ rev = "reset"
    /\ pc \in {"start", "done"}
    /\ pass < MaxPasses
    /\ pass' = pass + 1
    /\ attempt' = attempt
    /\ timer' = "nil"
    /\ delay' = Zero
    /\ yielded' = <<>>
    /\ stopped' = FALSE
    /\ durationCalls' = 0
    /\ timerArms' = 0
    /\ ctxChecks' = 0
    /\ pc' = IF maxAttempts <= attempt THEN "done" ELSE "check"
    /\ UNCHANGED <<inputs, dvars, ctxvars>>

\* Faulty variant of Iterate: the bound is tested only after the first round
\* of the loop, so the loop is entered whatever maxAttempts is.
IterateUnguarded ==
    /\ rev = "reset"
    /\ pc \in {"start", "done"}
    /\ pass < MaxPasses
    /\ pass' = pass + 1
    /\ attempt' = 0
    /\ timer' = "nil"
    /\ delay' = Zero
    /\ yielded' = <<>>
    /\ stopped' = FALSE
    /\ durationCalls' = 0
    /\ timerArms' = 0
    /\ ctxChecks' = 0
    /\ pc' = "check"
    /\ UNCHANGED <<inputs, dvars, ctxvars>>

\* The consumer ranges over the sequence: the function Attempts returned is
\* called with the consumer's yield.  Every call starts with fresh locals.
Iterate ==
    /\ rev = "reset"
    /\ pc \in {"start", "done"}
    /\ pass < MaxPasses
    /\ pass' = pass + 1
    /\ attempt' = 0
    /\ timer' = "nil"
    /\ delay' = Zero
    /\ yielded' = <<>>
    /\ stopped' = FALSE
    /\ durationCalls' = 0
    /\ timerArms' = 0
    /\ ctxChecks' = 0
    /\ pc' = IF maxAttempts <= 0 THEN "done" ELSE "check"
    /\ UNCHANGED <<inputs, dvars, ctxvars>>

\* Faulty variant of Exit: timer.Stop() is not deferred.
ExitNoStop ==
    /\ pc' = "done"
    /\ timer' = timer

\* return, with the deferred timer.Stop() when a timer was created.
Exit ==
    /\ pc' = "done"
    /\ timer' = IF timer = "nil" THEN "nil" ELSE "stopped"

\* The next round of "for attempt := range maxAttempts", taken from inside
\* "if attempt+1 < maxAttempts".
Continue ==
    /\ pc' = "check"
    /\ attempt' = attempt + 1

\* Faulty variant of CheckCtx: ctx is checked between attempts only, not
\* before the first one.
CheckCtxAfterFirst ==
    /\ rev = "reset"
    /\ pc = "check"
    /\ ctxChecks' = IF attempt = 0 THEN ctxChecks ELSE ctxChecks + 1
    /\ IF ctxDone /\ attempt > 0 THEN Exit ELSE pc' = "call" /\ timer' = timer
    /\ UNCHANGED <<inputs, dvars, ctxvars, attempt, delay, pass, yielded,
                   stopped, durationCalls, timerArms>>

\* if ctx.Err() != nil { return }
CheckCtx ==
    /\ rev = "reset"
    /\ pc = "check"
    /\ ctxChecks' = ctxChecks + 1
    /\ IF ctxDone THEN Exit ELSE pc' = "call" /\ timer' = timer
    /\ UNCHANGED <<inputs, dvars, ctxvars, attempt, delay, pass, yielded,
                   stopped, durationCalls, timerArms>>

\* Faulty variant of CallYield: the index is one-based.
CallYieldOneBased ==
    /\ rev = "reset"
    /\ pc = "call"
    /\ yielded' = Append(yielded, attempt + 1)
    /\ pc' = "body"
    /\ UNCHANGED <<inputs, dvars, ctxvars, attempt, timer, delay, pass,
                   stopped, durationCalls, timerArms, ctxChecks>>

\* yield(attempt) is called: the consumer's loop body starts.
CallYield ==
    /\ rev = "reset"
    /\ pc = "call"
    /\ yielded' = Append(yielded, attempt)
    /\ pc' = "body"
    /\ UNCHANGED <<inputs, dvars, ctxvars, attempt, timer, delay, pass,
                   stopped, durationCalls, timerArms, ctxChecks>>

\* Faulty variant of Gap: an existing timer is not Reset, only a new one is
\* armed.
GapNoReset(out) ==
    /\ durationCalls' = durationCalls + 1
    /\ IF out.panic
       THEN /\ pc' = "panic"
            /\ UNCHANGED <<attempt, timer, delay, timerArms>>
       ELSE IF LeqZero(out.value)
       THEN /\ Continue
            /\ UNCHANGED <<timer, delay, timerArms>>
       ELSE /\ timer' = IF timer = "nil" THEN "armed" ELSE timer
            /\ delay' = out.value
            /\ timerArms' = IF timer = "nil" THEN timerArms + 1 ELSE timerArms
            /\ pc' = "select"
            /\ attempt' = attempt

\* Faulty variant of Gap: a delay <= 0 goes straight to the next yield,
\* past the check of ctx.
GapUncheckedContinue(out) ==
    /\ durationCalls' = durationCalls + 1
    /\ IF out.panic
       THEN /\ pc' = "panic"
            /\ UNCHANGED <<attempt, timer, delay, timerArms>>
       ELSE IF LeqZero(out.value)
       THEN /\ pc' = "call"
            /\ attempt' = attempt + 1
            /\ UNCHANGED <<timer, delay, timerArms>>
       ELSE /\ timer' = "armed"
            /\ delay' = out.value
            /\ timerArms' = timerArms + 1
            /\ pc' = "select"
            /\ attempt' = attempt

\* Faulty variant of Gap: the select has a default case, so the loop goes on
\* without waiting for the timer it has armed.
GapNoWait(out) ==
    /\ durationCalls' = durationCalls + 1
    /\ IF out.panic
       THEN /\ pc' = "panic"
            /\ UNCHANGED <<attempt, timer, delay, timerArms>>
       ELSE IF LeqZero(out.value)
       THEN /\ Continue
            /\ UNCHANGED <<timer, delay, timerArms>>
       ELSE /\ timer' = "armed"
            /\ delay' = out.value
            /\ timerArms' = timerArms + 1
            /\ Continue

\* The gap after an accepted index that is not the last: the delay is
\* computed; a delay <= 0 continues at once, any other arms the timer
\* (NewTimer the first time, Reset after) and blocks in the select.
Gap(out) ==
    /\ durationCalls' = durationCalls + 1
    /\ IF out.panic
       THEN /\ pc' = "panic"
            /\ UNCHANGED <<attempt, timer, delay, timerArms>>
       ELSE IF LeqZero(out.value)
       THEN /\ Continue
            /\ UNCHANGED <<timer, delay, timerArms>>
       ELSE /\ timer' = "armed"
            /\ delay' = out.value
            /\ timerArms' = timerArms + 1
            /\ pc' = "select"
            /\ attempt' = attempt

\* Faulty variant of YieldContinue: the delay is computed for the attempt
\* to come, attempt+1.
YieldContinueNextAttempt ==
    /\ rev = "reset"
    /\ pc = "body"
    /\ IF attempt + 1 < maxAttempts
       THEN \E out \in Duration(base, cap, attempt + 1) : Gap(out)
       ELSE /\ Exit
            /\ UNCHANGED <<attempt, delay, durationCalls, timerArms>>
    /\ UNCHANGED <<inputs, dvars, ctxvars, pass, yielded, stopped, ctxChecks>>

\* yield returns true: the consumer has accepted the index.
YieldContinue ==
    /\ rev = "reset"
    /\ pc = "body"
    /\ IF attempt + 1 < maxAttempts
       THEN \E out \in Duration(base, cap, attempt) : Gap(out)
       ELSE /\ Exit
            /\ UNCHANGED <<attempt, delay, durationCalls, timerArms>>
    /\ UNCHANGED <<inputs, dvars, ctxvars, pass, yielded, stopped, ctxChecks>>

\* Faulty variant of YieldStop: the result of yield is ignored.
YieldStopIgnored ==
    /\ rev = "reset"
    /\ pc = "body"
    /\ stopped' = TRUE
    /\ IF attempt + 1 < maxAttempts
       THEN \E out \in Duration(base, cap, attempt) : Gap(out)
       ELSE /\ Exit
            /\ UNCHANGED <<attempt, delay, durationCalls, timerArms>>
    /\ UNCHANGED <<inputs, dvars, ctxvars, pass, yielded, ctxChecks>>

\* Faulty variant of YieldStop: the iterator cancels the context when the
\* consumer stops.
YieldStopCancels ==
    /\ rev = "reset"
    /\ pc = "body"
    /\ stopped' = TRUE
    /\ Exit
    /\ ctxDone' = TRUE
    /\ UNCHANGED <<inputs, dvars, cancelAt, attempt, delay, pass, yielded,
                   durationCalls, timerArms, ctxChecks>>

\* yield returns false: the consumer has stopped.
YieldStop ==
    /\ rev = "reset"
    /\ pc = "body"
    /\ stopped' = TRUE
    /\ Exit
    /\ UNCHANGED <<inputs, dvars, ctxvars, attempt, delay, pass, yielded,
                   durationCalls, timerArms, ctxChecks>>

\* Faulty variant of SelectCtxDone: ctx is looked at only once the timer
\* has fired.
SelectCtxDoneAfterTimer ==
    /\ rev = "reset"
    /\ pc = "select"
    /\ ctxDone
    /\ timer = "fired"
    /\ Exit
    /\ UNCHANGED <<inputs, dvars, ctxvars, attempt, delay, pass, yielded,
                   stopped, durationCalls, timerArms, ctxChecks>>

\* select: case <-ctx.Done(): return
SelectCtxDone ==
    /\ rev = "reset"
    /\ pc = "select"
    /\ ctxDone
    /\ Exit
    /\ UNCHANGED <<inputs, dvars, ctxvars, attempt, delay, pass, yielded,
                   stopped, durationCalls, timerArms, ctxChecks>>

\* Faulty variant of SelectTimer: after the tick the next index is yielded
\* without the check of ctx.
SelectTimerUnchecked ==
    /\ rev = "reset"
    /\ pc = "select"
    /\ timer = "fired"
    /\ timer' = "drained"
    /\ pc' = "call"
    /\ attempt' = attempt + 1
    /\ UNCHANGED <<inputs, dvars, ctxvars, delay, pass, yielded, stopped,
                   durationCalls, timerArms, ctxChecks>>

\* select: case <-timer.C: the tick is received and the loop goes on.
SelectTimer ==
    /\ rev = "reset"
    /\ pc = "select"
    /\ timer = "fired"
    /\ timer' = "drained"
    /\ Continue
    /\ UNCHANGED <<inputs, dvars, ctxvars, delay, pass, yielded, stopped,
                   durationCalls, timerArms, ctxChecks>>

----------------------------------------------------------------------------
(* Attempts, src/unnamed/part_000: a time.After channel per gap *)

LegacyIterate ==
    /\ rev = "after"
    /\ pc \in {"start", "done"}
    /\ pass < MaxPasses
    /\ pass' = pass + 1
    /\ attempt' = 0
    /\ timer' = "nil"
    /\ delay' = Zero
    /\ yielded' = <<>>
    /\ stopped' = FALSE
    /\ durationCalls' = 0
    /\ timerArms' = 0
    /\ ctxChecks' = 0
    /\ pc' = IF maxAttempts <= 0 THEN "done" ELSE "check"
    /\ UNCHANGED <<inputs, dvars, ctxvars>>

\* return: nothing is deferred, a timer of time.After is left to the runtime.
LegacyExit ==
    /\ pc' = "done"
    /\ timer' = timer

\* select { case <-ctx.Done(): return; default: }
LegacyCheckCtx ==
    /\ rev = "after"
    /\ pc = "check"
    /\ ctxChecks' = ctxChecks + 1
    /\ IF ctxDone THEN LegacyExit ELSE pc' = "call" /\ timer' = timer
    /\ UNCHANGED <<inputs, dvars, ctxvars, attempt, delay, pass, yielded,
                   stopped, durationCalls, timerArms>>

LegacyCallYield ==
    /\ rev = "after"
    /\ pc = "call"
    /\ yielded' = Append(yielded, attempt)
    /\ pc' = "body"
    /\ UNCHANGED <<inputs, dvars, ctxvars, attempt, timer, delay, pass,
                   stopped, durationCalls, timerArms, ctxChecks>>

LegacyYieldStop ==
    /\ rev = "after"
    /\ pc = "body"
    /\ stopped' = TRUE
    /\ LegacyExit
    /\ UNCHANGED <<inputs, dvars, ctxvars, attempt, delay, pass, yielded,
                   durationCalls, timerArms, ctxChecks>>

\* After(base, cap, attempt) = time.After(Duration(base, cap, attempt)): a
\* new timer is armed with the delay, whatever it is, and its channel is
\* what the select waits on.
LegacyGap(out) ==
    /\ durationCalls' = durationCalls + 1
    /\ IF out.panic
       THEN /\ pc' = "panic"
            /\ UNCHANGED <<timer, delay, timerArms>>
       ELSE /\ timer' = "armed"
            /\ delay' = out.value
            /\ timerArms' = timerArms + 1
            /\ pc' = "select"

LegacyYieldContinue ==
    /\ rev = "after"
    /\ pc = "body"
    /\ IF attempt + 1 < maxAttempts
       THEN \E out \in Duration(base, cap, attempt) : LegacyGap(out)
       ELSE /\ LegacyExit
            /\ UNCHANGED <<delay, durationCalls, timerArms>>
    /\ UNCHANGED <<inputs, dvars, ctxvars, attempt, pass, yielded, stopped,
                   ctxChecks>>

\* select: case <-ctx.Done(): return
LegacySelectCtxDone ==
    /\ rev = "after"
    /\ pc = "select"
    /\ ctxDone
    /\ LegacyExit
    /\ UNCHANGED <<inputs, dvars, ctxvars, attempt, delay, pass, yielded,
                   stopped, durationCalls, timerArms, ctxChecks>>

\* Faulty variant of LegacySelectAfter: after the wait the next index is
\* yielded without the check of ctx.
LegacySelectAfterUnchecked ==
    /\ rev = "after"
    /\ pc = "select"
    /\ timer = "fired"
    /\ timer' = "drained"
    /\ pc' = "call"
    /\ attempt' = attempt + 1
    /\ UNCHANGED <<inputs, dvars, ctxvars, delay, pass, yielded, stopped,
                   durationCalls, timerArms, ctxChecks>>

\* select: case <-After(base, cap, attempt):
LegacySelectAfter ==
    /\ rev = "after"
    /\ pc = "select"
    /\ timer = "fired"
    /\ timer' = "drained"
    /\ Continue
    /\ UNCHANGED <<inputs, dvars, ctxvars, delay, pass, yielded, stopped,
                   durationCalls, timerArms, ctxChecks>>

----------------------------------------------------------------------------
(* Specifications *)

Init ==
    /\ \E d \in AttemptsDurations : base = d[1] /\ cap = d[2]
    /\ rev \in {"reset", "after"}
    /\ maxAttempts \in MaxAttemptsValues
    /\ ctxDone = FALSE
    /\ cancelAt = NotCancelled
    /\ NoDirectCall
    /\ FreshSequence

\* The steps the iterator takes by itself.
IteratorStep ==
    \/ CheckCtx
    \/ CallYield
    \/ SelectCtxDone
    \/ SelectTimer
    \/ LegacyCheckCtx
    \/ LegacyCallYield
    \/ LegacySelectCtxDone
    \/ LegacySelectAfter

\* The consumer's loop body ends: yield returns.
ConsumerReturn ==
    \/ YieldStop
    \/ YieldContinue
    \/ LegacyYieldStop
    \/ LegacyYieldContinue

Next ==
    \/ Cancel
    \/ TimerFire
    \/ Iterate
    \/ LegacyIterate
    \/ IteratorStep
    \/ ConsumerReturn

Spec == Init /\ [][Next]_vars

\* The iterator's goroutine runs, the consumer returns from every yield; the
\* timer need not fire.
SpecCancel ==
    Spec /\ WF_vars(IteratorStep) /\ WF_vars(ConsumerReturn)

\* As SpecCancel, and every armed timer eventually fires.
SpecLive == SpecCancel /\ WF_vars(TimerFire)

----------------------------------------------------------------------------
(* Properties *)

\* <<0, 1, ..., k-1>>
Iota(k) == [i \in 1 .. k |-> i - 1]

\* a * 2^k in unbounded integers, for a >= 0.
TimesPow2(a, k) == {i + k : i \in a}

\* min(a, b) of two natural numbers.
MinNat(a, b) == IF ULess(a, b) THEN a ELSE b

InIteration == pc \in {"check", "call", "body", "select"}

\* ctx was cancelled in this iteration, while the consumer was handling an
\* index or while the iterator waited in the select.
CancelledInGap ==
    /\ ctxDone
    /\ cancelAt.pass = pass
    /\ cancelAt.pc \in {"body", "select"}

\* ctx was cancelled before this iteration started.
CancelledBefore == ctxDone /\ cancelAt.pass < pass

\* C1: in every state of an iteration of Attempts, in both revisions, the
\* indices passed to yield so far are exactly 0, 1, ..., k-1 for some
\* k <= max(maxAttempts, 0): no gap, no repeat, no index >= maxAttempts.
C1_YieldedIsPrefix ==
    /\ Len(yielded) <= (IF maxAttempts > 0 THEN maxAttempts ELSE 0)
    /\ yielded = Iota(Len(yielded))

\* C1 witness: a run with a cancellation and a timer wait has yielded
\* several indices.
C1_Witness ==
    /\ Len(yielded) >= 3
    /\ timerArms >= 2
    /\ ctxDone
    /\ pc = "done"

\* C2: with the context never cancelled and a consumer that accepts every
\* index, an iteration with maxAttempts = n > 0 ends having yielded exactly
\* 0..n-1, provided every armed timer eventually fires: an iteration under
\* way leads to cancellation, to a stop of the consumer, or to the
\* terminated state with all n indices yielded.
C2_Drains ==
    (InIteration /\ maxAttempts > 0)
        ~> (ctxDone \/ stopped
            \/ (pc = "done" /\ yielded = Iota(maxAttempts)))

\* C2 witness: a fully drained iteration of at least three indices that
\* waited on the timer, with no cancellation and no stop.
C2_Witness ==
    /\ pc = "done"
    /\ ~ctxDone
    /\ ~stopped
    /\ maxAttempts >= 3
    /\ yielded = Iota(maxAttempts)
    /\ timer \in {"stopped", "drained"}

\* C3: when the context is cancelled while the consumer handles index i or
\* while the iterator waits for the delay after index i, index i+1 is never
\* yielded (the yielded indices stay exactly 0..i) and the iteration
\* terminates, whichever branch of the select is taken and without the
\* timer having to fire.
C3_NoYieldAfterCancel ==
    /\ [](CancelledInGap => yielded = Iota(cancelAt.attempt + 1))
    /\ (CancelledInGap /\ InIteration)
           ~> (pc = "done" /\ yielded = Iota(cancelAt.attempt + 1))

\* C3 witness: the context was cancelled during the select, the timer had
\* fired too and the timer branch was taken; the iterator is back at the
\* check with index i+1 not yielded.
C3_Witness ==
    /\ CancelledInGap
    /\ cancelAt.pc = "select"
    /\ pc = "check"
    /\ timer = "drained"
    /\ attempt = cancelAt.attempt + 1

\* C4: every yield, the first included, is preceded by its own check of the
\* context; a check that finds the context cancelled ends the iteration
\* without yielding the current or any later index; an iteration started
\* with the context already cancelled yields nothing.
C4_CheckBeforeYield ==
    /\ [](CancelledBefore => yielded = <<>>)
    /\ [][(yielded' # yielded /\ pass' = pass)
              => ctxChecks = Len(yielded) + 1]_vars
    /\ [][(pc = "check" /\ ctxDone)
              => (pc' = "done" /\ yielded' = yielded)]_vars
    /\ [][(pc = "done" /\ pass' = pass)
              => (pc' = "done" /\ yielded' = yielded)]_vars

\* C4 witness: an iteration with maxAttempts > 0 started after the
\* cancellation has terminated at its first check, with nothing yielded.
C4_Witness ==
    /\ CancelledBefore
    /\ maxAttempts > 0
    /\ ctxChecks = 1
    /\ pc = "done"
    /\ yielded = <<>>

\* C5: when yield(k) returns false the iteration is terminated by that very
\* step: no delay is computed and no timer is armed by it or after it, yield
\* is not called again, and the yielded indices are exactly 0..k.
C5_StopIsImmediate ==
    /\ [](stopped => (pc = "done" /\ timer # "armed"
                        /\ yielded = Iota(attempt + 1)))
    /\ [][(stopped' /\ pass' = pass)
              => /\ yielded' = yielded
                 /\ durationCalls' = durationCalls
                 /\ timerArms' = timerArms
                 /\ attempt' = attempt]_vars

\* C5 witness: the consumer stopped after accepting index 1 of 3, after a
\* wait on the timer.
C5_Witness ==
    /\ stopped
    /\ maxAttempts = 3
    /\ yielded = <<0, 1>>
    /\ timerArms = 1
    /\ pc = "done"

\* C6: for base > 0, cap > 0 and attempt >= 0 every result of Duration
\* satisfies 0 <= result < min(cap, base * 2^attempt), the product taken in
\* unbounded integers; the result is below the computed limit, the limit
\* is at most cap, and a limit of 1 gives 0.
C6_ResultBelowLimit ==
    (dpc = "returned" /\ ~LeqZero(base) /\ ~LeqZero(cap) /\ dAttempt >= 0)
        => /\ ~dOut.panic
           /\ ~IsNeg(dOut.value)
           /\ ULess(dOut.value, MinNat(cap, TimesPow2(base, dAttempt)))
           /\ SLess(dOut.value, Limit(base, cap, dAttempt))
           /\ SLeq(Limit(base, cap, dAttempt), cap)
           /\ (MinNat(cap, TimesPow2(base, dAttempt)) = One
                   => dOut.value = Zero)

\* C6 witness: Duration(3, 1s, 2) has returned 11, the largest value below
\* the limit 12.
C6_Witness ==
    /\ dpc = "returned"
    /\ base = ToWord(3)
    /\ cap = Second
    /\ dAttempt = 2
    /\ dOut = Return(ToWord(11))

\* C7: Duration returns 0 and does not panic whenever base <= 0 or cap <= 0
\* or attempt < 0, whatever the other two arguments.
C7_InvalidGivesZero ==
    (dpc = "returned" /\ (LeqZero(base) \/ LeqZero(cap) \/ dAttempt < 0))
        => dOut = Return(Zero)

\* C7 witness: a call with a negative attempt and valid base and cap has
\* returned.
C7_Witness ==
    /\ dpc = "returned"
    /\ dAttempt < 0
    /\ base = Second
    /\ cap = MaxInt64
    /\ dOut = Return(Zero)

\* C8 as stated: for attempt >= 63 the result of Duration is in [0, cap),
\* regardless of base (and of cap).
C8_Original ==
    (dpc = "returned" /\ dAttempt >= 63)
        => (~dOut.panic /\ ~IsNeg(dOut.value) /\ SLess(dOut.value, cap))

\* C8 amended: for attempt >= 63 and cap > 0 the result of Duration is in
\* [0, cap), regardless of base.
C8_Amended ==
    (dpc = "returned" /\ dAttempt >= 63 /\ ~LeqZero(cap))
        => (~dOut.panic /\ ~IsNeg(dOut.value) /\ SLess(dOut.value, cap))

\* C8 witness: with attempt 64 and the largest cap, Duration has returned
\* cap - 1.
C8_Witness ==
    /\ dpc = "returned"
    /\ dAttempt = 64
    /\ base = Second
    /\ cap = MaxInt64
    /\ dOut = Return(Dec(MaxInt64))

\* C9: once the context is cancelled, an iteration under way reaches its
\* terminated state even if the pending timer never fires, provided the
\* consumer returns from the yield in progress.
C9_CancelTerminates == (ctxDone /\ InIteration) ~> (pc = "done")

\* C9 witness: an iteration cancelled during the select has terminated
\* while its timer has still not fired.
C9_Witness ==
    /\ pc = "done"
    /\ ctxDone
    /\ cancelAt.pc = "select"
    /\ cancelAt.pass = pass
    /\ rev = "after"
    /\ timer = "armed"

\* C10 as stated: iterating the returned sequence a second time does not
\* start again from index 0.
C10_Original == (pass >= 2 /\ yielded # <<>>) => yielded[1] # 0

\* C10 amended: the returned sequence is restartable: every iteration of
\* it, the second as the first, starts with fresh loop state and the first
\* index it yields is 0.
C10_Amended ==
    /\ [](yielded # <<>> => yielded[1] = 0)
    /\ [][pass' # pass
              => (attempt' = 0 /\ yielded' = <<>> /\ timer' = "nil"
                  /\ ~stopped')]_vars

\* C10 witness: a second iteration of the same sequence has yielded 0 and
\* then 1.
C10_Witness ==
    /\ pass = 2
    /\ yielded = <<0, 1>>
    /\ pc = "body"

\* C11: for maxAttempts <= 0 an iteration of Attempts is terminated as soon
\* as it is started, having yielded nothing, armed no timer, computed no
\* delay and made no check of the context, whether or not the context is
\* cancelled.
C11_EmptyForNonPositive ==
    (maxAttempts <= 0 /\ pass >= 1)
        => /\ pc = "done"
           /\ yielded = <<>>
           /\ timer = "nil"
           /\ timerArms = 0
           /\ durationCalls = 0
           /\ ctxChecks = 0

\* C11 witness: a sequence with maxAttempts <= 0 has been iterated with the
\* context cancelled.
C11_Witness ==
    /\ maxAttempts <= 0
    /\ pass >= 1
    /\ ctxDone
    /\ pc = "done"

\* C12: whenever an iteration of Attempts (src/backoff.go) has terminated,
\* by exhaustion, by the consumer's stop or by cancellation, the timer it
\* created, if any, has been stopped: no exit path leaves it armed.
C12_TimerReleased ==
    (rev = "reset" /\ pc = "done" /\ pass >= 1)
        => /\ timerArms > 0 => timer = "stopped"
           /\ timerArms = 0 => timer = "nil"

\* C12 witness: an iteration cancelled during its second wait has
\* terminated with its timer stopped.
C12_Witness ==
    /\ rev = "reset"
    /\ pc = "done"
    /\ ctxDone
    /\ cancelAt.pc = "select"
    /\ cancelAt.pass = pass
    /\ timerArms = 2
    /\ timer = "stopped"

\* C13: no step of an iteration of Attempts changes the cancellation token:
\* across every step that moves the iterator or its timer, early
\* termination included, the context is cancelled after the step exactly
\* if it was before.
C13_ContextUntouched ==
    [][(locals' # locals \/ observed' # observed)
           => (ctxDone' = ctxDone /\ cancelAt' = cancelAt)]_vars

\* C13 witness: an iteration ended early by the consumer, after a wait,
\* with the context still not cancelled.
C13_Witness ==
    /\ pc = "done"
    /\ stopped
    /\ timerArms >= 1
    /\ ~ctxDone

\* C14: After returns, without waiting and without panicking, a channel on
\* which nothing has been delivered yet; exactly one notification is then
\* eventually delivered on it, also when the computed delay is 0, and never
\* a second one.
C14_OneNotification ==
    /\ [](afterSent <= 1 /\ afterChan <= 1 /\ afterRecv <= 1)
    /\ [][(dpc = "idle" /\ dpc' # "idle")
              => (dpc' = "returned" /\ afterTimer' = "armed"
                  /\ afterSent' = 0)]_vars
    /\ [][afterSent = 1 => afterSent' = 1]_vars
    /\ (dpc = "returned") ~> (afterSent = 1)

\* C14 witness: After computed the delay 0, returned, and its one
\* notification has been delivered and received.
C14_Witness ==
    /\ dpc = "returned"
    /\ ~LeqZero(base)
    /\ ~LeqZero(cap)
    /\ dOut = Return(Zero)
    /\ afterTimer = "fired"
    /\ afterSent = 1
    /\ afterRecv = 1

\* C15: for base > 0, cap > 0 and attempt >= 0 the limit Duration computes
\* is min(cap, base * 2^attempt) taken in unbounded integers; the test
\* base > cap>>attempt is true exactly when base * 2^attempt > cap; and in
\* the branch where neither it nor attempt >= 63 holds, base << attempt does
\* not wrap (it is the unbounded product) and is at most cap.
C15_LimitIsMin ==
    (~LeqZero(base) /\ ~LeqZero(cap) /\ dAttempt >= 0)
        => /\ Limit(base, cap, dAttempt)
                  = MinNat(cap, TimesPow2(base, dAttempt))
           /\ SLess(Shr(cap, dAttempt), base)
                  <=> ULess(cap, TimesPow2(base, dAttempt))
           /\ ~(dAttempt >= ShiftGuard \/ SLess(Shr(cap, dAttempt), base))
                  => /\ Shl(base, dAttempt) = TimesPow2(base, dAttempt)
                     /\ SLeq(Shl(base, dAttempt), cap)

\* C15 witness: Duration(3, 2^62, 60) has returned, where 3 * 2^60 is below
\* cap and the next attempt would overflow it.
C15_Witness ==
    /\ dpc = "returned"
    /\ base = ToWord(3)
    /\ cap = {Width - 2}
    /\ dAttempt = 60
    /\ dOut = Return(Dec({60, 61}))

\* The iteration has ended by exhaustion: every index was yielded and
\* accepted.
Drained ==
    /\ pc = "done"
    /\ pass >= 1
    /\ maxAttempts > 0
    /\ ~stopped
    /\ yielded = Iota(maxAttempts)

\* C16: the delay waited for between index i and index i+1 is a result of
\* Duration for attempt = i, so it is 0 or below min(cap, base * 2^i) (the
\* first gap is below base); a delay is computed, and a timer armed, only after an
\* index i with i+1 < maxAttempts, at most once per yielded index; a fully
\* drained sequence of n indices has computed exactly n-1 delays and made at
\* most n-1 waits, none after the last index.
C16_GapUsesAttempt ==
    /\ [](pc = "select"
             => /\ attempt + 1 < maxAttempts
                /\ Len(yielded) = attempt + 1
                /\ ~IsNeg(delay)
                /\ \/ delay = Zero
                   \/ ULess(delay, MinNat(cap, TimesPow2(base, attempt))))
    /\ [](timerArms <= durationCalls /\ durationCalls <= Len(yielded))
    /\ [](maxAttempts > 0 => durationCalls <= maxAttempts - 1)
    /\ [](Drained => (durationCalls = maxAttempts - 1
                        /\ timerArms <= maxAttempts - 1
                        /\ timer # "armed"))
    /\ [][durationCalls' > durationCalls
              => (pc = "body" /\ attempt + 1 < maxAttempts
                  /\ durationCalls' = durationCalls + 1)]_vars

\* C16 witness: with base 1 and cap 1s, the iterator waits in the gap after
\* index 1 with the delay 1 (below 1 * 2^1), the gap after index 0 having
\* had the delay 0.
C16_Witness ==
    /\ pc = "select"
    /\ base = One
    /\ cap = Second
    /\ attempt = 1
    /\ delay = One
    /\ durationCalls = 2
    /\ yielded = <<0, 1>>

\* Every delay Attempts can compute with these arguments is 0.
ZeroDelays ==
    \A a \in 0 .. maxAttempts : Duration(base, cap, a) = {Return(Zero)}

\* ctx was cancelled in this iteration after an index was passed to yield
\* and before the check for the next one was made.
CancelledAfterAccept ==
    /\ ctxDone
    /\ cancelAt.pass = pass
    /\ \/ cancelAt.pc = "body"
       \/ cancelAt.pc = "check" /\ cancelAt.attempt >= 1

\* C17: in src/backoff.go a gap whose delay is 0 arms no timer and waits in
\* no select, and goes on to the check of the context for the next index:
\* when every delay is 0, a context cancelled after index i was passed to
\* yield, during the consumer's body or before the next check, keeps index
\* i+1 from being yielded.
C17_ZeroDelayStillChecks ==
    /\ []((rev = "reset" /\ ZeroDelays)
             => (timerArms = 0 /\ timer = "nil" /\ pc # "select"))
    /\ [][(rev = "reset" /\ pc = "body" /\ pc' \notin {"body", "done"})
              => (ZeroDelays => pc' = "check" /\ attempt' = attempt + 1)]_vars
    /\ [][(rev = "reset" /\ pc = "body" /\ pc' = "check")
              => (timerArms' = timerArms /\ timer' = timer
                  /\ durationCalls' = durationCalls + 1)]_vars
    /\ []((rev = "reset" /\ ZeroDelays /\ CancelledAfterAccept)
             => yielded = Iota(IF cancelAt.pc = "body"
                               THEN cancelAt.attempt + 1
                               ELSE cancelAt.attempt))

\* C17 witness: with base = cap = 1 the context was cancelled after index 0
\* had been accepted and its gap skipped; the check for index 1 ended the
\* iteration with only index 0 yielded.
C17_Witness ==
    /\ rev = "reset"
    /\ base = One
    /\ cap = One
    /\ maxAttempts = 3
    /\ ctxDone
    /\ cancelAt = [pc |-> "check", attempt |-> 1, pass |-> pass]
    /\ pc = "done"
    /\ durationCalls = 1
    /\ ctxChecks = 2
    /\ yielded = <<0>>

\* How many indices an iteration yields, as a function of what its
\* environment did and of nothing else: maxAttempts, the index at which the
\* consumer stopped, and the point of the iteration, relative to its checks
\* and yields, at which the context was cancelled.  Neither the revision nor
\* the timer occurs in it.
ExpectedYields ==
    IF maxAttempts <= 0 \/ CancelledBefore THEN 0
    ELSE IF stopped THEN attempt + 1
    ELSE IF ctxDone /\ cancelAt.pass = pass /\ cancelAt.pc = "check"
    THEN cancelAt.attempt
    ELSE IF ctxDone /\ cancelAt.pass = pass
            /\ cancelAt.pc \in {"call", "body", "select"}
    THEN cancelAt.attempt + 1
    ELSE maxAttempts

\* C18: the revision that resets one timer and skips zero delays and the
\* revision that allocates a time.After channel per gap have the same
\* observable behaviour: in both, a terminated iteration has yielded
\* exactly 0 .. ExpectedYields - 1, the same function of maxAttempts, of the
\* consumer's stop and of the timing of the cancellation, and in both every
\* iteration under way terminates (timers fire, the consumer returns).
C18_RevisionsAgree ==
    /\ []((pc = "done" /\ pass >= 1) => yielded = Iota(ExpectedYields))
    /\ [](pc # "panic")
    /\ InIteration ~> (pc = "done")

\* C18 witness: the time.After revision was cancelled while it waited on a
\* delay of 0, a wait the other revision skips, and has terminated with the
\* indices yielded so far.
C18_Witness ==
    /\ rev = "after"
    /\ pc = "done"
    /\ delay = Zero
    /\ ctxDone
    /\ cancelAt = [pc |-> "select", attempt |-> 1, pass |-> pass]
    /\ yielded = <<0, 1>>
    /\ maxAttempts = 3

\* The number of indices that had been passed to yield when ctx was
\* cancelled, for a cancellation inside this iteration.
YieldsAtCancel ==
    IF cancelAt.pc \in {"check", "call"}
    THEN cancelAt.attempt
    ELSE cancelAt.attempt + 1

\* C19: with the context cancelled by a concurrent process at any point of
\* an iteration, at most one index is yielded after the cancellation: a
\* yield made with the context cancelled is the yield of the index whose
\* check had already passed when the cancellation came, and a check made
\* with the context cancelled ends the iteration.
C19_AtMostOneLateYield ==
    /\ [][(ctxDone /\ yielded' # yielded /\ pass' = pass)
              => /\ cancelAt = [pc |-> "call", attempt |-> attempt,
                                pass |-> pass]
                 /\ Len(yielded) = attempt]_vars
    /\ []((ctxDone /\ cancelAt.pass = pass /\ cancelAt.pc # "done")
             => Len(yielded) <= YieldsAtCancel
                                  + (IF cancelAt.pc = "call" THEN 1 ELSE 0))
    /\ [][(ctxDone /\ pc = "check") => pc' = "done"]_vars
    /\ [][(ctxDone /\ pc = "select") => pc' \in {"select", "check", "done"}]_vars

\* C19 witness: the context was cancelled between the check for index 1 and
\* the call of yield; index 1 was still yielded, and the iteration has ended
\* without index 2.
C19_Witness ==
    /\ ctxDone
    /\ cancelAt = [pc |-> "call", attempt |-> 1, pass |-> pass]
    /\ maxAttempts = 3
    /\ ~stopped
    /\ pc = "done"
    /\ yielded = <<0, 1>>

\* C20: in src/backoff.go the timer is armed for the first time when
\* there is none (NewTimer) and after that only by a Reset of a timer that
\* has fired and whose tick has been received; a wait in the select always
\* has its own arming pending or fired, and the loop leaves the select for
\* the next index only by receiving that tick, so no tick of an earlier
\* arming is there to satisfy a later wait.
C20_ResetOnlyDrained ==
    /\ [][(rev = "reset" /\ timerArms' > timerArms)
              => /\ timerArms' = timerArms + 1
                 /\ timer = (IF timerArms = 0 THEN "nil" ELSE "drained")
                 /\ timer' = "armed"
                 /\ pc' = "select"]_vars
    /\ [](rev = "reset"
             => /\ pc = "select" => timer \in {"armed", "fired"}
                /\ pc \in {"check", "call", "body"}
                       => timer = (IF timerArms = 0 THEN "nil" ELSE "drained"))
    /\ [][(rev = "reset" /\ pc = "select" /\ pc' # "select")
              => \/ pc' = "done"
                 \/ pc' = "check" /\ timer = "fired" /\ timer' = "drained"]_vars

\* C20 witness: the timer has been Reset for the second gap, after the tick
\* of the first was received, and has fired again.
C20_Witness ==
    /\ rev = "reset"
    /\ pc = "select"
    /\ attempt = 1
    /\ timerArms = 2
    /\ timer = "fired"

====
